---------------------------- MODULE Spec2Model ----------------------------
(***************************************************************************)
(* A model of the three page scripts of the Power-4 betting site:          *)
(*   src/script.js    the homepage        (loadGames)                       *)
(*   src/rankings.js  the rankings page   (two scripts in one file, each    *)
(*                    registering its own DOMContentLoaded handler)         *)
(*   src/game.js      the game detail page (loadGame, renderSummary)        *)
(* Every handler is an async function: it runs synchronously up to an       *)
(* await and is resumed when the awaited promise settles.  An action of the *)
(* model is one such synchronous run.  The responses of the data sources    *)
(* are the inputs and are chosen nondeterministically.                      *)
(***************************************************************************)
EXTENDS Integers, Sequences, FiniteSets, TLC

VARIABLES
    page,            \* which page's document is loaded: "home", "rankings", "game"
    \* ---- homepage (src/script.js)
    hpc,             \* position of loadGames: "ready", "fetch", "json", "done"
    hres,            \* the response of data/games.json, once the fetch has settled
    gamesContainer,  \* #games-container: [msg, cards]
    hFetches,        \* number of fetch() calls issued by loadGames
    hEscaped,        \* an exception left loadGames (an unhandled rejection)
    \* ---- game detail page (src/game.js)
    gpc,             \* position of loadGame: "ready", "fetch", "json", "done"
    gParam,          \* the event query parameter: [present, value]
    gres,            \* the response of the summary endpoint, once the fetch has settled
    gameTitle,       \* #game-title
    summaryContainer, \* #summary-container: [table, infoDiv, info]
    gFetches,        \* number of fetch() calls issued by loadGame
    gEscaped,        \* an exception left loadGame
    \* ---- rankings page (src/rankings.js)
    category,        \* the category query parameter: [present, value]
    world,           \* the schedule the data sources describe
    endpoints,       \* the answer of the team endpoint for each team id
    rpc,             \* position of the remote script's handler
    rsb,             \* the kind of the scoreboard response, once settled
    rEvents,         \* events of the remote builder
    rloop,           \* its loop state: [i, statsArr, j, map (teamStatsMap)]
    TEAM_CACHE,      \* TEAM_CACHE of the remote script
    rFetchLog,       \* the requests the remote script has issued, in order
    rEscaped,        \* an exception left the remote handleLoad
    lpc,             \* position of the local script's handler
    lres,            \* the kind of the data/games.json response, once settled
    lFetchLog,       \* the requests the local script has issued
    lEscaped,        \* an exception left the local handleLoad
    rankingsTitle,   \* #rankings-title
    rankingsDescription, \* #rankings-description
    rankingsContainer    \* #rankings-container: [msg, tables]

homeVars == <<hpc, hres, gamesContainer, hFetches, hEscaped>>
gameVars == <<gpc, gParam, gres, gameTitle, summaryContainer, gFetches, gEscaped>>
rankInputs == <<category, world, endpoints>>
remoteVars == <<rpc, rsb, rEvents, rloop, TEAM_CACHE, rFetchLog, rEscaped>>
localVars == <<lpc, lres, lFetchLog, lEscaped>>
domVars == <<rankingsTitle, rankingsDescription, rankingsContainer>>
rankVars == <<rankInputs, remoteVars, localVars, domVars>>
vars == <<page, homeVars, gameVars, rankVars>>

(***************************************************************************)
(* Bounds of the model.                                                    *)
(***************************************************************************)
\* longest event list a data source answers with
MaxEvents == 2
\* longest boxscore.teams list the summary endpoint answers with
MaxBoxTeams == 2

(***************************************************************************)
(* Generic helpers.                                                        *)
(***************************************************************************)
SeqsUpTo(S, n) == UNION {[1..k -> S] : k \in 0..n}

Abs(n) == IF n < 0 THEN -n ELSE n

(***************************************************************************)
(* Homepage: constants of src/script.js.                                   *)
(***************************************************************************)
\* a groupId of 0 stands for a null or absent groupId (falsy in JavaScript)
NoGroup == 0

P4_GROUPS == {1, 4, 5, 8}

\* CONFERENCE_CLASS[confId] || ''
CONFERENCE_CLASS(confId) ==
    CASE confId = 5 -> "big-ten"
      [] confId = 8 -> "sec"
      [] confId = 1 -> "acc"
      [] confId = 4 -> "big-12"
      [] OTHER -> ""

\* the test without the membership in P4_GROUPS
IsP4_AnyGroup(groupId) == groupId # NoGroup

\* c.groupId && P4_GROUPS.includes(c.groupId)
IsP4(groupId) == groupId # NoGroup /\ groupId \in P4_GROUPS

LoadingGames == "Loading games"
NoGamesFound == "No Power-4 games found for this date."
FailedGames == "Failed to load games. Please try again later."

(***************************************************************************)
(* Homepage: the inputs.  An event of data/games.json has competitors      *)
(* (groupId, homeAway, abbreviation) and odds.spread; its id is its place  *)
(* in the file.  A spread is a JSON value: absent, a number or a string.   *)
(***************************************************************************)
GroupIds == {NoGroup, 1, 8, 12}

Sides == {"home", "away"}

Abbreviations == <<"AAA", "BBB">>

Competitor(g, side, k) == [groupId |-> g, homeAway |-> side, abbreviation |-> Abbreviations[k]]

\* two competitors: a home and an away team in either order, or two home teams
SidePairs == {<<"home", "away">>, <<"away", "home">>, <<"home", "home">>}

CompetitorLists ==
    {<<>>}
    \cup {<<Competitor(g, s, 1)>> : g \in GroupIds, s \in Sides}
    \cup {<<Competitor(g1, sp[1], 1), Competitor(g2, sp[2], 2)>> :
            g1 \in GroupIds, g2 \in GroupIds, sp \in SidePairs}

AbsentSpread == [t |-> "absent", v |-> 0]

Spreads == {AbsentSpread, [t |-> "number", v |-> -3], [t |-> "number", v |-> 0],
            [t |-> "number", v |-> 6], [t |-> "string", v |-> -3]}

\* every competitor list without odds, and every spread for the two orders of a
\* home/away pair of Power-4 teams; a null entry stands for a malformed event
EventPool ==
    {[isNull |-> FALSE, competitors |-> cl, spread |-> AbsentSpread] : cl \in CompetitorLists}
    \cup {[isNull |-> FALSE,
           competitors |-> <<Competitor(1, s, 1), Competitor(8, IF s = "home" THEN "away" ELSE "home", 2)>>,
           spread |-> sp] : s \in Sides, sp \in Spreads}
    \cup {[isNull |-> TRUE, competitors |-> <<>>, spread |-> AbsentSpread]}

WithIds(evs) ==
    [i \in DOMAIN evs |->
        [id |-> i, isNull |-> evs[i].isNull, competitors |-> evs[i].competitors,
         spread |-> evs[i].spread]]

\* what the fetch of data/games.json can end in: a rejected promise, a body that is
\* not JSON, a JSON value that cannot be iterated (null, an object), or a list
SnapshotResponses ==
    {[kind |-> k, events |-> <<>>] : k \in {"reject", "badjson", "notiterable"}}
    \cup {[kind |-> "list", events |-> WithIds(evs)] : evs \in SeqsUpTo(EventPool, MaxEvents)}

NoResponse == [kind |-> "none", events |-> <<>>]

(***************************************************************************)
(* Homepage: loadGames.                                                    *)
(***************************************************************************)
\* the scan without the break at the home team: the last qualifying team wins
RECURSIVE ScanConfId_NoBreak(_, _, _)
ScanConfId_NoBreak(competitors, k, confId) ==
    IF k > Len(competitors) THEN confId
    ELSE IF IsP4(competitors[k].groupId)
         THEN ScanConfId_NoBreak(competitors, k + 1, competitors[k].groupId)
         ELSE ScanConfId_NoBreak(competitors, k + 1, confId)

\* lines 130-137: the scan for the conference id, from competitor k on
RECURSIVE ScanConfId(_, _, _)
ScanConfId(competitors, k, confId) ==
    IF k > Len(competitors) THEN confId
    ELSE LET c == competitors[k] IN
         IF IsP4(c.groupId)
         THEN IF c.homeAway = "home" THEN c.groupId
              ELSE ScanConfId(competitors, k + 1, c.groupId)
         ELSE ScanConfId(competitors, k + 1, confId)

\* a find that takes the first competitor whatever its side
FindSide_IgnoresSide(competitors, side, k) ==
    IF k > Len(competitors) THEN 0 ELSE k

\* competitors.find((c) => c.homeAway === side): the index of the first one, 0 if none
RECURSIVE FindSide(_, _, _)
FindSide(competitors, side, k) ==
    IF k > Len(competitors) THEN 0
    ELSE IF competitors[k].homeAway = side THEN k
    ELSE FindSide(competitors, side, k + 1)

\* the spread line with the favourite taken from the wrong side
SpreadLine_Swapped(spread, home, away) ==
    IF spread.t = "number"
    THEN IF spread.v < 0 THEN away.abbreviation \o " " \o ToString(Abs(spread.v))
         ELSE IF spread.v > 0 THEN home.abbreviation \o " " \o ToString(spread.v)
         ELSE "Pick"
    ELSE "Pick"

\* lines 156-165: the spread line
SpreadLine(spread, home, away) ==
    IF spread.t = "number"
    THEN IF spread.v < 0 THEN home.abbreviation \o " " \o ToString(Abs(spread.v))
         ELSE IF spread.v > 0 THEN away.abbreviation \o " " \o ToString(spread.v)
         ELSE "Pick"
    ELSE "Pick"

NoCard == [eventId |-> 0, barClass |-> "", spreadLine |-> ""]

\* lines 128-202, one iteration of the loop: the card of an event, NoCard when the
\* event is skipped by one of the two continue statements
EventCard(event) ==
    LET competitors == event.competitors
        confId == ScanConfId(competitors, 1, NoGroup)
        a == FindSide(competitors, "away", 1)
        h == FindSide(competitors, "home", 1)
    IN  IF confId = NoGroup THEN NoCard
        ELSE IF a = 0 \/ h = 0 THEN NoCard
        ELSE [eventId |-> event.id,
              barClass |-> CONFERENCE_CLASS(confId),
              spreadLine |-> SpreadLine(event.spread, competitors[h], competitors[a])]

\* the loop with each card put in front of the earlier ones
RECURSIVE BuildCards_Prepend(_, _, _)
BuildCards_Prepend(events, i, gameCards) ==
    IF i > Len(events) THEN [threw |-> FALSE, cards |-> gameCards]
    ELSE IF events[i].isNull THEN [threw |-> TRUE, cards |-> gameCards]
    ELSE LET card == EventCard(events[i]) IN
         BuildCards_Prepend(events, i + 1,
                            IF card = NoCard THEN gameCards ELSE <<card>> \o gameCards)

\* lines 126-203: the loop; threw is set when an event is null (event.competitors
\* of null is a TypeError), which ends the loop
RECURSIVE BuildCards(_, _, _)
BuildCards(events, i, gameCards) ==
    IF i > Len(events) THEN [threw |-> FALSE, cards |-> gameCards]
    ELSE IF events[i].isNull THEN [threw |-> TRUE, cards |-> gameCards]
    ELSE LET card == EventCard(events[i]) IN
         BuildCards(events, i + 1, IF card = NoCard THEN gameCards ELSE Append(gameCards, card))

\* lines 204-211: what the container holds after the loop
RenderCards(gameCards) ==
    IF Len(gameCards) = 0 THEN [msg |-> NoGamesFound, cards |-> <<>>]
    ELSE [msg |-> "", cards |-> gameCards]

\* a catch clause that logs the error and leaves the container as it is
LoadGamesCatch_KeepsLoading ==
    [container |-> [msg |-> LoadingGames, cards |-> <<>>], escaped |-> FALSE]

\* lines 212-215: the catch clause of loadGames
LoadGamesCatch == [container |-> [msg |-> FailedGames, cards |-> <<>>], escaped |-> FALSE]

\* lines 125-211 once res.json() has settled with the body of response r
LoadGamesBody(r) ==
    IF r.kind # "list" THEN LoadGamesCatch
    ELSE LET built == BuildCards(r.events, 1, <<>>) IN
         IF built.threw THEN LoadGamesCatch
         ELSE [container |-> RenderCards(built.cards), escaped |-> FALSE]

\* lines 120-124: DOMContentLoaded runs loadGames up to the await of fetch
LoadGamesStart ==
    /\ page = "home" /\ hpc = "ready"
    /\ gamesContainer' = [msg |-> LoadingGames, cards |-> <<>>]
    /\ hFetches' = hFetches + 1
    /\ hpc' = "fetch"
    /\ UNCHANGED <<page, hres, hEscaped, gameVars, rankVars>>

\* line 124: the fetch settles; a rejection goes to the catch clause, a response
\* goes on to the await of res.json()
LoadGamesFetchSettles ==
    /\ page = "home" /\ hpc = "fetch"
    /\ hres' \in SnapshotResponses
    /\ IF hres'.kind = "reject"
       THEN /\ gamesContainer' = LoadGamesCatch.container
            /\ hEscaped' = LoadGamesCatch.escaped
            /\ hpc' = "done"
       ELSE /\ hpc' = "json"
            /\ UNCHANGED <<gamesContainer, hEscaped>>
    /\ UNCHANGED <<page, hFetches, gameVars, rankVars>>

\* lines 125-215: res.json() settles; a parse error goes to the catch clause,
\* a value runs the loop and the rendering in one synchronous run
LoadGamesJsonSettles ==
    /\ page = "home" /\ hpc = "json"
    /\ LET out == IF hres.kind = "badjson" THEN LoadGamesCatch ELSE LoadGamesBody(hres) IN
        /\ gamesContainer' = out.container
        /\ hEscaped' = out.escaped
    /\ hpc' = "done"
    /\ UNCHANGED <<page, hres, hFetches, gameVars, rankVars>>

(***************************************************************************)
(* Game detail page: the inputs.  The summary endpoint answers a request   *)
(* with a rejected promise, a body that is not JSON, the JSON value null,  *)
(* or an object with an optional boxscore (teams with an optional team     *)
(* sub-record and statistics) and an optional gameInfo (venue, weather).   *)
(***************************************************************************)
\* lines 53-62: the rows of the comparison table
SummaryRows ==
    << [key |-> "totalPointsPerGame", label |-> "Points Per Game"],
       [key |-> "yardsPerGame", label |-> "Total Yards"],
       [key |-> "passingYardsPerGame", label |-> "Passing Yards"],
       [key |-> "rushingYardsPerGame", label |-> "Rushing Yards"],
       [key |-> "totalPointsPerGameAllowed", label |-> "Points Allowed"],
       [key |-> "yardsPerGameAllowed", label |-> "Yards Allowed"],
       [key |-> "passingYardsPerGameAllowed", label |-> "Pass Yards Allowed"],
       [key |-> "rushingYardsPerGameAllowed", label |-> "Rush Yards Allowed"] >>

StatKeys == {SummaryRows[i].key : i \in DOMAIN SummaryRows}

OffenseKeys == {"totalPointsPerGame", "yardsPerGame", "passingYardsPerGame", "rushingYardsPerGame"}

\* the statistics list of a boxscore team, as a map from name to displayValue:
\* every statistic, the offensive ones only with an empty points value, or none
DisplayStats ==
    { [k \in StatKeys |-> "A:" \o k],
      [k \in OffenseKeys |-> IF k = "totalPointsPerGame" THEN "" ELSE "B:" \o k],
      [k \in {} |-> ""] }

TeamNames == <<"Alpha", "Beta", "Gamma">>

\* a boxscore team at place k: without its team sub-record, or with it
BoxTeams(k) ==
    {[hasTeam |-> FALSE, name |-> "", stats |-> [x \in {} |-> ""]]}
    \cup {[hasTeam |-> TRUE, name |-> TeamNames[k], stats |-> st] : st \in DisplayStats}

BoxTeamLists ==
    UNION { {tl \in [1..n -> UNION {BoxTeams(k) : k \in 1..n}] :
                \A k \in 1..n : tl[k] \in BoxTeams(k)} : n \in 0..MaxBoxTeams }

\* venue: absent, with fullName and address, or with fullName and no address
Venues == {"none", "full", "noaddress"}

NoSummary == [isNull |-> FALSE, boxscore |-> "absent", teams |-> <<>>, venue |-> "none", weather |-> FALSE]

Summaries ==
    {[isNull |-> TRUE, boxscore |-> "absent", teams |-> <<>>, venue |-> "none", weather |-> FALSE]}
    \cup {[isNull |-> FALSE, boxscore |-> b, teams |-> <<>>, venue |-> "none", weather |-> FALSE] :
            b \in {"absent", "noteams"}}
    \cup {[isNull |-> FALSE, boxscore |-> "teams", teams |-> tl, venue |-> v, weather |-> w] :
            tl \in BoxTeamLists, v \in Venues, w \in BOOLEAN}

\* the events the data source knows
KnownEvents == {"401"}

EventParams ==
    {[present |-> FALSE, value |-> ""]}
    \cup {[present |-> TRUE, value |-> v] : v \in {"", "401", "999"}}

\* the data source cannot answer with the teams of an event it does not know
SummaryResponses(eventId) ==
    {[kind |-> k, summary |-> NoSummary] : k \in {"reject", "badjson"}}
    \cup {[kind |-> "json", summary |-> sm] :
            sm \in {x \in Summaries : eventId \in KnownEvents \/ Len(x.teams) < 2}}

NoSummaryResponse == [kind |-> "none", summary |-> NoSummary]

(***************************************************************************)
(* Game detail page: renderSummary and loadGame.                           *)
(***************************************************************************)
EmptyContainer == [table |-> <<>>, infoDiv |-> FALSE, info |-> <<>>]

\* teamStats[k].stats[key] || '-'
StatCell(team, key) ==
    IF key \in DOMAIN team.stats /\ team.stats[key] # "" THEN team.stats[key] ELSE "-"

\* lines 63-74: the header row and the eight statistic rows
ComparisonTable(teamA, teamB) ==
    <<[label |-> "Statistic", a |-> teamA.name, b |-> teamB.name]>>
    \o [i \in DOMAIN SummaryRows |->
          [label |-> SummaryRows[i].label,
           a |-> StatCell(teamA, SummaryRows[i].key),
           b |-> StatCell(teamB, SummaryRows[i].key)]]

\* lines 77-85: the paragraphs of the info block
InfoLines(summary) ==
    (IF summary.venue = "full" THEN <<"Venue">> ELSE <<>>)
    \o (IF summary.weather THEN <<"Weather">> ELSE <<>>)

\* renderSummary without the test of the number of teams: teamStats[1] is
\* undefined when fewer than two teams are listed
RenderSummary_NoLengthTest(summary, title) ==
    IF summary.isNull
    THEN [threw |-> TRUE, title |-> title, container |-> EmptyContainer]
    ELSE IF summary.boxscore # "teams"
    THEN [threw |-> FALSE, title |-> "Summary not available", container |-> EmptyContainer]
    ELSE IF Len(summary.teams) < 2 \/ \E k \in DOMAIN summary.teams : ~summary.teams[k].hasTeam
    THEN [threw |-> TRUE, title |-> title, container |-> EmptyContainer]
    ELSE LET shown == summary.teams[1].name \o " vs " \o summary.teams[2].name
             table == ComparisonTable(summary.teams[1], summary.teams[2])
         IN  IF summary.venue = "noaddress"
             THEN [threw |-> TRUE, title |-> shown,
                   container |-> [table |-> table, infoDiv |-> FALSE, info |-> <<>>]]
             ELSE [threw |-> FALSE, title |-> shown,
                   container |-> [table |-> table, infoDiv |-> TRUE, info |-> InfoLines(summary)]]

\* lines 30-87: renderSummary; threw is set where a TypeError leaves it
\* (summary is null, a team has no team sub-record, a venue has no address)
RenderSummary(summary, title) ==
    IF summary.isNull
    THEN [threw |-> TRUE, title |-> title, container |-> EmptyContainer]
    ELSE IF summary.boxscore # "teams" \/ Len(summary.teams) < 2
    THEN [threw |-> FALSE, title |-> "Summary not available", container |-> EmptyContainer]
    ELSE IF \E k \in DOMAIN summary.teams : ~summary.teams[k].hasTeam
    THEN [threw |-> TRUE, title |-> title, container |-> EmptyContainer]
    ELSE LET shown == summary.teams[1].name \o " vs " \o summary.teams[2].name
             table == ComparisonTable(summary.teams[1], summary.teams[2])
         IN  IF summary.venue = "noaddress"
             THEN [threw |-> TRUE, title |-> shown,
                   container |-> [table |-> table, infoDiv |-> FALSE, info |-> <<>>]]
             ELSE [threw |-> FALSE, title |-> shown,
                   container |-> [table |-> table, infoDiv |-> TRUE, info |-> InfoLines(summary)]]

\* lines 102-105: the catch clause of loadGame
LoadGameCatch(container) ==
    [title |-> "Failed to load summary", container |-> container, escaped |-> FALSE]

\* lines 101-105: renderSummary(data) inside the try block
LoadGameRender(summary, title) ==
    LET out == RenderSummary(summary, title) IN
    IF out.threw THEN LoadGameCatch(out.container)
    ELSE [title |-> out.title, container |-> out.container, escaped |-> FALSE]

\* loadGame with a test for the absent parameter only (eventId === null)
LoadGameStart_NullTestOnly ==
    /\ page = "game" /\ gpc = "ready"
    /\ IF ~gParam.present
       THEN /\ gameTitle' = "No event specified"
            /\ gpc' = "done"
            /\ UNCHANGED gFetches
       ELSE /\ gameTitle' = "Loading game summary"
            /\ gFetches' = gFetches + 1
            /\ gpc' = "fetch"
    /\ UNCHANGED <<page, homeVars, rankVars, gParam, gres, summaryContainer, gEscaped>>

\* lines 89-99: DOMContentLoaded runs loadGame up to the await of fetch
LoadGameStart ==
    /\ page = "game" /\ gpc = "ready"
    /\ IF ~gParam.present \/ gParam.value = ""
       THEN /\ gameTitle' = "No event specified"
            /\ gpc' = "done"
            /\ UNCHANGED gFetches
       ELSE /\ gameTitle' = "Loading game summary"
            /\ gFetches' = gFetches + 1
            /\ gpc' = "fetch"
    /\ UNCHANGED <<page, homeVars, rankVars, gParam, gres, summaryContainer, gEscaped>>

\* line 99: the fetch settles
LoadGameFetchSettles ==
    /\ page = "game" /\ gpc = "fetch"
    /\ \E r \in SummaryResponses(gParam.value) :
        /\ gres' = r
        /\ IF r.kind = "reject"
           THEN /\ gameTitle' = LoadGameCatch(summaryContainer).title
                /\ gEscaped' = LoadGameCatch(summaryContainer).escaped
                /\ gpc' = "done"
           ELSE /\ gpc' = "json"
                /\ UNCHANGED <<gameTitle, gEscaped>>
    /\ UNCHANGED <<page, homeVars, rankVars, gParam, summaryContainer, gFetches>>

\* lines 100-105: res.json() settles; a value is rendered in one synchronous run
LoadGameJsonSettles ==
    /\ page = "game" /\ gpc = "json"
    /\ LET out == IF gres.kind = "badjson" THEN LoadGameCatch(summaryContainer)
                  ELSE LoadGameRender(gres.summary, gameTitle) IN
        /\ gameTitle' = out.title
        /\ summaryContainer' = out.container
        /\ gEscaped' = out.escaped
    /\ gpc' = "done"
    /\ UNCHANGED <<page, homeVars, rankVars, gParam, gres, gFetches>>

(***************************************************************************)
(* Rankings page: the inputs.  src/rankings.js holds two scripts; the      *)
(* first (lines 12-394, "remote") reads ESPN's scoreboard, summary and     *)
(* team endpoints, the second (lines 406-760, "local") reads               *)
(* data/games.json.  Both describe the same schedule: world is its event   *)
(* list, each event a pair of team ids and the sheet its statistics are    *)
(* taken from (sheet 0: the event has no statistics); the id of an event   *)
(* is its place in the list.                                               *)
(***************************************************************************)
TeamIds == {1, 2, 3}

TeamName(t) == TeamNames[t]

\* parseFloat of a displayValue that is no number (remote), a statistic the
\* snapshot does not hold (local): both are falsy and become 0 by `|| 0`
NaN == -1

RankKeys ==
    <<"totalPointsPerGame", "yardsPerGame", "passingYardsPerGame", "rushingYardsPerGame",
      "totalPointsPerGameAllowed", "yardsPerGameAllowed", "passingYardsPerGameAllowed",
      "rushingYardsPerGameAllowed">>

\* the statistics of team t on sheet s, in the order of RankKeys
SheetValues(s, t) ==
    CASE s = 1 /\ t = 1 -> <<10, 300, 200, 100, 10, 300, 200, 100>>
      [] s = 1 /\ t = 2 -> <<30, 100, 60, 40, 30, 100, 60, 40>>
      [] s = 1 /\ t = 3 -> <<20, 200, 120, 80, 20, 200, 120, 80>>
      [] s = 2 /\ t = 1 -> <<NaN, 250, 150, 100, 20, 150, 100, 50>>
      [] s = 2 /\ t = 2 -> <<30, 0, NaN, 70, 20, 150, 90, 60>>
      [] s = 2 /\ t = 3 -> <<30, 400, 300, 100, NaN, 50, 30, 20>>
      [] OTHER -> <<NaN, NaN, NaN, NaN, NaN, NaN, NaN, NaN>>

Sheets == {0, 1, 2}

TeamStats(s, t) == [k \in 1..Len(RankKeys) |-> SheetValues(s, t)[k]]

KeyIndex(key) == CHOOSE k \in DOMAIN RankKeys : RankKeys[k] = key

WorldEvents ==
    {[teams |-> <<a, b>>, sheet |-> s] : a \in TeamIds, b \in TeamIds, s \in Sheets}

\* the pairs of teams on the two sheets, and one event without statistics
WorldEventPool ==
    {e \in WorldEvents : e.teams[1] < e.teams[2] /\ (e.sheet = 0 => e.teams = <<1, 2>>)}

Worlds ==
    {[i \in DOMAIN evs |-> [id |-> i, teams |-> evs[i].teams, sheet |-> evs[i].sheet]] :
        evs \in SeqsUpTo(WorldEventPool, MaxEvents)}

\* what the team endpoint answers for each team id: groups.id, 0 when the
\* document has no groups, or a failed request
TeamEndpoints ==
    { [t \in TeamIds |-> [fails |-> FALSE, groupsId |-> CASE t = 1 -> 5 [] t = 2 -> 8 [] OTHER -> 1]],
      [t \in TeamIds |-> CASE t = 1 -> [fails |-> FALSE, groupsId |-> 12]
                           [] t = 2 -> [fails |-> TRUE, groupsId |-> 0]
                           [] OTHER -> [fails |-> FALSE, groupsId |-> 1]] }

\* the category query parameter, as its characters
Chars(str) ==
    CASE str = "offense" -> <<"o", "f", "f", "e", "n", "s", "e">>
      [] str = "OFFENSE" -> <<"O", "F", "F", "E", "N", "S", "E">>
      [] str = "Defense" -> <<"D", "e", "f", "e", "n", "s", "e">>
      [] str = "defense" -> <<"d", "e", "f", "e", "n", "s", "e">>
      [] str = "returning" -> <<"r", "e", "t", "u", "r", "n", "i", "n", "g">>
      [] str = "Returning" -> <<"R", "e", "t", "u", "r", "n", "i", "n", "g">>
      [] str = "sos" -> <<"s", "o", "s">>
      [] str = "SoS" -> <<"S", "o", "S">>
      [] str = "offence" -> <<"o", "f", "f", "e", "n", "c", "e">>
      [] str = "offense " -> <<"o", "f", "f", "e", "n", "s", "e", " ">>
      [] OTHER -> <<>>

CategoryParams ==
    {[present |-> FALSE, value |-> <<>>]}
    \cup {[present |-> TRUE, value |-> Chars(str)] :
            str \in {"", "OFFENSE", "defense", "Returning", "returning", "sos", "SoS",
                     "offence", "offense "}}

UpperCase == <<"A", "B", "C", "D", "E", "F", "G", "H", "I", "J", "K", "L", "M",
               "N", "O", "P", "Q", "R", "S", "T", "U", "V", "W", "X", "Y", "Z">>
LowerCase == <<"a", "b", "c", "d", "e", "f", "g", "h", "i", "j", "k", "l", "m",
               "n", "o", "p", "q", "r", "s", "t", "u", "v", "w", "x", "y", "z">>

\* the parameter compared as it is written
ToLowerCase_Identity(chars) == chars

\* String.prototype.toLowerCase, character by character
ToLowerCase(chars) ==
    [i \in DOMAIN chars |->
        IF \E k \in DOMAIN UpperCase : UpperCase[k] = chars[i]
        THEN LowerCase[CHOOSE k \in DOMAIN UpperCase : UpperCase[k] = chars[i]]
        ELSE chars[i]]

\* line 371: (getQueryParam('category') || '').toLowerCase()
Category(param) == ToLowerCase(IF param.present THEN param.value ELSE <<>>)

\* the switch of handleLoad: the case a category selects
CategoryCase(param) ==
    LET c == Category(param) IN
    CASE c = Chars("offense") -> "offense"
      [] c = Chars("defense") -> "defense"
      [] c = Chars("returning") -> "returning"
      [] c = Chars("sos") -> "sos"
      [] OTHER -> "default"

(***************************************************************************)
(* Rankings page: helpers shared by the builders.                          *)
(***************************************************************************)
\* value || 0 for a statistic: 0 when it is absent, NaN or 0
OrZero(stats, key) ==
    LET k == KeyIndex(key) IN
    IF k \in DOMAIN stats /\ stats[k] # NaN THEN stats[k] ELSE 0

\* lines 331-344 and 683-710: conferenceName of the two scripts
ConferenceName(script, id) ==
    CASE id = 1 -> "ACC"
      [] id = 4 -> "Big 12"
      [] id = 5 -> "Big Ten"
      [] id = 8 -> "SEC"
      [] script = "local" /\ id = 12 -> "CUSA"
      [] script = "local" /\ id = 15 -> "MAC"
      [] script = "local" /\ id = 17 -> "Mountain West"
      [] script = "local" /\ id = 18 -> "Independent"
      [] script = "local" /\ id = 29 -> "Southern"
      [] script = "local" /\ id = 30 -> "WAC"
      [] script = "local" /\ id = 31 -> "SWAC"
      [] OTHER -> ""

\* Object.values(teamStatsMap): the keys are team ids, integer-like strings, which
\* an object enumerates in ascending numeric order whatever their insertion order
RECURSIVE ObjectValues(_)
ObjectValues(map) ==
    IF DOMAIN map = {} THEN <<>>
    ELSE LET least == CHOOSE t \in DOMAIN map : \A u \in DOMAIN map : t <= u IN
         <<map[least]>> \o ObjectValues([u \in DOMAIN map \ {least} |-> map[u]])

\* the comparator with its operands the wrong way round for a descending sort
Compare_Ascending(a, b, key, descending) == a[key] - b[key]

\* the comparator (a, b) => a[key] - b[key], or b[key] - a[key] when descending
Compare(a, b, key, descending) == IF descending THEN b[key] - a[key] ELSE a[key] - b[key]

\* a sort that is not stable: elements that compare equal change places
SortRows_TiesReversed(rows, key, descending) ==
    LET Before(i, j) ==
            \/ Compare(rows[i], rows[j], key, descending) < 0
            \/ Compare(rows[i], rows[j], key, descending) = 0 /\ i > j
        Place(i) == Cardinality({j \in DOMAIN rows : Before(j, i)}) + 1
    IN  [p \in DOMAIN rows |-> rows[CHOOSE i \in DOMAIN rows : Place(i) = p]]

\* Array.prototype.sort is stable: an element goes before another when it compares
\* less, or compares equal and stood before it
SortRows(rows, key, descending) ==
    LET Before(i, j) ==
            \/ Compare(rows[i], rows[j], key, descending) < 0
            \/ Compare(rows[i], rows[j], key, descending) = 0 /\ i < j
        Place(i) == Cardinality({j \in DOMAIN rows : Before(j, i)}) + 1
    IN  [p \in DOMAIN rows |-> rows[CHOOSE i \in DOMAIN rows : Place(i) = p]]

\* teams.forEach((t, idx) => ...): the row of place idx shows idx + 1 as its rank
WithRanks(script, rows) ==
    [idx \in DOMAIN rows |->
        [rank |-> idx, conf |-> ConferenceName(script, rows[idx].groupId), team |-> rows[idx]]]

EmptyMap == [t \in {} |-> 0]

\* TEAM_CACHE[teamId] = info
CacheTeam(cache, id, info) ==
    [t \in DOMAIN cache \cup {id} |-> IF t = id THEN info ELSE cache[t]]

\* the row of a team written at each of its occurrences
PutIfAbsent_Overwrite(map, id, row) ==
    [t \in DOMAIN map \cup {id} |-> IF t = id THEN row ELSE map[t]]

\* if (!teamStatsMap[id]) teamStatsMap[id] = row
PutIfAbsent(map, id, row) ==
    IF id \in DOMAIN map THEN map
    ELSE [t \in DOMAIN map \cup {id} |-> IF t = id THEN row ELSE map[t]]

LoadingRankings(case) ==
    IF case = "offense" THEN "Loading offensive rankings" ELSE "Loading defensive rankings"

FailedRankings(case) ==
    IF case = "offense" THEN "Failed to load offensive rankings."
    ELSE "Failed to load defensive rankings."

RankingsTitle(case) ==
    CASE case = "offense" -> "Offensive Rankings"
      [] case = "defense" -> "Defensive Rankings"
      [] case = "returning" -> "Returning Production Rankings"
      [] case = "sos" -> "Strength of Schedule Rankings"
      [] OTHER -> "Rankings"

\* the texts handed to setDescription, by their opening words
RankingsDescription(script, case) ==
    CASE case = "offense" /\ script = "remote" ->
            "Teams are ranked by points per game using statistics from ESPN's summary endpoint"
      [] case = "offense" /\ script = "local" ->
            "Teams are ranked by points per game using statistics compiled from the local data set"
      [] case = "defense" /\ script = "remote" ->
            "Teams are ranked by points allowed per game using ESPN summary statistics"
      [] case = "defense" /\ script = "local" ->
            "Teams are ranked by yards allowed per game using statistics compiled from the local data set"
      [] case = "returning" -> "The number of returning starters provides insight into roster continuity"
      [] case = "sos" -> "Strength of schedule data for the 2024 and 2025 seasons were not available"
      [] OTHER -> "Please select a category from the navigation menu to view rankings."

SosPlaceholder == "Strength of schedule rankings will be added soon."

Message(text) == [msg |-> text, tables |-> <<>>]

Tables(tbls) == [msg |-> "", tables |-> tbls]

\* lines 222-278 and 574-630: the curated list of returning starters
returningData ==
    << [team |-> "Illinois", total |-> 16, offense |-> 9, defense |-> 7],
       [team |-> "Clemson", total |-> 16, offense |-> 8, defense |-> 8],
       [team |-> "Boston College", total |-> 16, offense |-> 8, defense |-> 8],
       [team |-> "Oklahoma", total |-> 15, offense |-> 8, defense |-> 7],
       [team |-> "Texas Tech", total |-> 15, offense |-> 7, defense |-> 8],
       [team |-> "Utah", total |-> 15, offense |-> 8, defense |-> 7],
       [team |-> "Auburn", total |-> 15, offense |-> 9, defense |-> 6],
       [team |-> "Duke", total |-> 15, offense |-> 8, defense |-> 7],
       [team |-> "Kansas State", total |-> 15, offense |-> 7, defense |-> 8],
       [team |-> "Mississippi State", total |-> 14, offense |-> 8, defense |-> 6],
       [team |-> "Notre Dame", total |-> 14, offense |-> 7, defense |-> 7],
       [team |-> "Stanford", total |-> 14, offense |-> 7, defense |-> 7],
       [team |-> "BYU", total |-> 14, offense |-> 7, defense |-> 7],
       [team |-> "Cincinnati", total |-> 14, offense |-> 7, defense |-> 7],
       [team |-> "Iowa", total |-> 14, offense |-> 7, defense |-> 7],
       [team |-> "Minnesota", total |-> 14, offense |-> 7, defense |-> 7],
       [team |-> "NC State", total |-> 14, offense |-> 8, defense |-> 6],
       [team |-> "Northwestern", total |-> 13, offense |-> 7, defense |-> 6],
       [team |-> "Rutgers", total |-> 13, offense |-> 7, defense |-> 6],
       [team |-> "Tennessee", total |-> 13, offense |-> 6, defense |-> 7],
       [team |-> "Wisconsin", total |-> 13, offense |-> 8, defense |-> 5],
       [team |-> "Georgia Tech", total |-> 12, offense |-> 7, defense |-> 5],
       [team |-> "Michigan State", total |-> 12, offense |-> 6, defense |-> 6],
       [team |-> "Nebraska", total |-> 12, offense |-> 5, defense |-> 7],
       [team |-> "Ohio State", total |-> 12, offense |-> 5, defense |-> 7],
       [team |-> "South Carolina", total |-> 12, offense |-> 6, defense |-> 6],
       [team |-> "TCU", total |-> 12, offense |-> 6, defense |-> 6],
       [team |-> "Texas", total |-> 12, offense |-> 6, defense |-> 6],
       [team |-> "Virginia", total |-> 12, offense |-> 7, defense |-> 5],
       [team |-> "Arkansas", total |-> 11, offense |-> 5, defense |-> 6],
       [team |-> "Colorado", total |-> 11, offense |-> 6, defense |-> 5],
       [team |-> "Indiana", total |-> 11, offense |-> 5, defense |-> 6],
       [team |-> "Louisville", total |-> 11, offense |-> 7, defense |-> 4],
       [team |-> "Miami", total |-> 11, offense |-> 5, defense |-> 6],
       [team |-> "SMU", total |-> 11, offense |-> 5, defense |-> 6],
       [team |-> "USC", total |-> 11, offense |-> 6, defense |-> 5],
       [team |-> "California", total |-> 10, offense |-> 4, defense |-> 6],
       [team |-> "Georgia", total |-> 10, offense |-> 4, defense |-> 6],
       [team |-> "Kentucky", total |-> 10, offense |-> 4, defense |-> 6],
       [team |-> "LSU", total |-> 10, offense |-> 4, defense |-> 6],
       [team |-> "Syracuse", total |-> 10, offense |-> 6, defense |-> 4],
       [team |-> "North Carolina", total |-> 10, offense |-> 5, defense |-> 5],
       [team |-> "Florida State", total |-> 9, offense |-> 5, defense |-> 4],
       [team |-> "Kansas", total |-> 9, offense |-> 4, defense |-> 5],
       [team |-> "UCLA", total |-> 9, offense |-> 4, defense |-> 5],
       [team |-> "Wake Forest", total |-> 9, offense |-> 5, defense |-> 4],
       [team |-> "Washington", total |-> 9, offense |-> 3, defense |-> 6],
       [team |-> "Ole Miss", total |-> 9, offense |-> 3, defense |-> 6],
       [team |-> "Oregon", total |-> 9, offense |-> 4, defense |-> 5],
       [team |-> "Virginia Tech", total |-> 9, offense |-> 5, defense |-> 4],
       [team |-> "Maryland", total |-> 9, offense |-> 4, defense |-> 5],
       [team |-> "Oklahoma State", total |-> 9, offense |-> 5, defense |-> 4],
       [team |-> "UCF", total |-> 8, offense |-> 4, defense |-> 4],
       [team |-> "West Virginia", total |-> 8, offense |-> 5, defense |-> 3],
       [team |-> "Purdue", total |-> 1, offense |-> 1, defense |-> 0] >>

\* lines 287-307 and 639-659: buildReturningRankings
SortedReturningData == SortRows(returningData, "total", TRUE)

\* the curated list joined by display name to the teams of the schedule
ReturningTable_Joined(script) ==
    LET joined == SelectSeq(SortedReturningData,
                            LAMBDA e : \E t \in DOMAIN endpoints : TeamName(t) = e.team) IN
    [script |-> script, label |-> "returning",
     rows |-> [idx \in DOMAIN joined |-> [rank |-> idx, conf |-> "", team |-> joined[idx]]]]

ReturningTable(script) ==
    LET teams == SortedReturningData IN
    [script |-> script, label |-> "returning",
     rows |-> [idx \in DOMAIN teams |-> [rank |-> idx, conf |-> "", team |-> teams[idx]]]]

\* the switch without the break of its sos case: the default case runs after it
HandleLoadSync_SosFallsThrough(script, case) ==
    [title |-> IF case = "sos" THEN RankingsTitle("default") ELSE RankingsTitle(case),
     description |-> IF case = "sos" THEN RankingsDescription(script, "default")
                     ELSE RankingsDescription(script, case),
     container |-> CASE case = "returning" -> Tables(<<ReturningTable(script)>>)
                     [] OTHER -> Message("")]

\* the synchronous cases of handleLoad (lines 379-389 and 745-755): what the title,
\* the description and the container are set to
HandleLoadSync(script, case) ==
    [title |-> RankingsTitle(case),
     description |-> RankingsDescription(script, case),
     container |-> CASE case = "returning" -> Tables(<<ReturningTable(script)>>)
                     [] case = "sos" -> Message(SosPlaceholder)
                     [] OTHER -> Message("")]

\* a builder without its catch clause: the container keeps the loading message
BuildRankingsCatch_Rethrow(case) ==
    [container |-> Message(LoadingRankings(case)), escaped |-> TRUE]

\* the catch clause of a builder (lines 144-147, 207-210, 493-496, 559-562)
BuildRankingsCatch(case) == [container |-> Message(FailedRankings(case)), escaped |-> FALSE]

(***************************************************************************)
(* Rankings page, remote script (lines 12-394).                            *)
(***************************************************************************)
\* lines 61-81: what fetchEventTeamStats returns for an event whose summary holds
\* a boxscore: the teams with their parsed statistics
EventTeamStats(event) ==
    [k \in 1..2 |->
        [id |-> event.teams[k], name |-> TeamName(event.teams[k]),
         stats |-> TeamStats(event.sheet, event.teams[k])]]

\* lines 42-49: the record getTeamInfo caches for an answer of the team endpoint
TeamInfo(endpoint, id) ==
    IF endpoint.fails THEN [groupId |-> NoGroup, name |-> ""]
    ELSE [groupId |-> endpoint.groupsId, name |-> TeamName(id)]

\* lines 111-118 and 177-184: the row of a team
RemoteRow(case, team, info) ==
    IF case = "offense"
    THEN [name |-> team.name, groupId |-> info.groupId,
          ppg |-> OrZero(team.stats, "totalPointsPerGame"),
          yards |-> OrZero(team.stats, "yardsPerGame"),
          passYards |-> OrZero(team.stats, "passingYardsPerGame"),
          rushYards |-> OrZero(team.stats, "rushingYardsPerGame")]
    ELSE [name |-> team.name, groupId |-> info.groupId,
          ppgAllowed |-> OrZero(team.stats, "totalPointsPerGameAllowed"),
          yardsAllowed |-> OrZero(team.stats, "yardsPerGameAllowed"),
          passAllowed |-> OrZero(team.stats, "passingYardsPerGameAllowed"),
          rushAllowed |-> OrZero(team.stats, "rushingYardsPerGameAllowed")]

\* lines 108-119 and 175-185: one team of statsArr, its info known
RemoteAddTeam(case, map, team, info) ==
    IF ~IsP4(info.groupId) THEN map
    ELSE PutIfAbsent(map, team.id, RemoteRow(case, team, info))

\* the test of a cache that takes a record without a group for a missing one
Cached_OnlyWithGroup(cache, id) == id \in DOMAIN cache /\ cache[id].groupId # NoGroup

\* line 36: if (TEAM_CACHE[teamId]); a cached record is an object, hence truthy
Cached(cache, id) == id \in DOMAIN cache

\* lines 103-121 and 171-187: the loop runs on from team j of event i until it has
\* to wait: for the team endpoint (a team not in TEAM_CACHE), for the summary of
\* the next event, or not at all when the events are used up ("render")
RECURSIVE RunLoop(_, _, _, _)
RunLoop(case, events, loop, cache) ==
    IF loop.j <= Len(loop.statsArr)
    THEN LET team == loop.statsArr[loop.j] IN
         IF Cached(cache, team.id)
         THEN RunLoop(case, events,
                      [loop EXCEPT !.j = loop.j + 1,
                                   !.map = RemoteAddTeam(case, loop.map, team, cache[team.id])],
                      cache)
         ELSE [pc |-> "teamfetch", loop |-> loop]
    ELSE IF loop.i < Len(events)
    THEN [pc |-> "sumfetch", loop |-> [loop EXCEPT !.i = loop.i + 1, !.statsArr = <<>>, !.j = 1]]
    ELSE [pc |-> "render", loop |-> loop]

\* lines 122-141 and 188-204: the table of the remote script
RemoteTable(case, map) ==
    LET teams == IF case = "offense" THEN SortRows(ObjectValues(map), "ppg", TRUE)
                 ELSE SortRows(ObjectValues(map), "ppgAllowed", FALSE)
    IN  [script |-> "remote", label |-> case, rows |-> WithRanks("remote", teams)]

(***************************************************************************)
(* Rankings page, local script (lines 406-760).                            *)
(***************************************************************************)
\* the competitors of an event of data/games.json
LocalCompetitors(event, answers) ==
    [k \in 1..2 |->
        [id |-> event.teams[k], name |-> TeamName(event.teams[k]),
         groupId |-> TeamInfo(answers[event.teams[k]], event.teams[k]).groupId]]

\* (event.stats && event.stats[id]) || {}
LocalStats(event, id) ==
    IF event.sheet = 0 THEN <<>> ELSE TeamStats(event.sheet, id)

\* lines 449-456 and 524-531: the row of a competitor
LocalRow(case, comp, stats) ==
    IF case = "offense"
    THEN [name |-> comp.name, groupId |-> comp.groupId,
          ppg |-> OrZero(stats, "totalPointsPerGame"),
          yards |-> OrZero(stats, "yardsPerGame"),
          passYards |-> OrZero(stats, "passingYardsPerGame"),
          rushYards |-> OrZero(stats, "rushingYardsPerGame")]
    ELSE [name |-> comp.name, groupId |-> comp.groupId,
          yardsAllowed |-> OrZero(stats, "yardsPerGameAllowed"),
          passAllowed |-> OrZero(stats, "passingYardsPerGameAllowed"),
          rushAllowed |-> OrZero(stats, "rushingYardsPerGameAllowed"),
          ptsAllowed |-> OrZero(stats, "totalPointsPerGameAllowed")]

\* lines 443-459 and 518-534: the two nested forEach loops, from competitor k of
\* event i on
RECURSIVE LocalAggregate(_, _, _, _, _, _)
LocalAggregate(case, events, answers, i, k, map) ==
    IF i > Len(events) THEN map
    ELSE IF k > 2 THEN LocalAggregate(case, events, answers, i + 1, 1, map)
    ELSE LET comp == LocalCompetitors(events[i], answers)[k] IN
         LocalAggregate(case, events, answers, i, k + 1,
            IF ~IsP4(comp.groupId) THEN map
            ELSE PutIfAbsent(map, comp.id, LocalRow(case, comp, LocalStats(events[i], comp.id))))

\* lines 460-492 and 535-558: the two season tables of the local script
LocalTables(case, map) ==
    LET teams == IF case = "offense" THEN SortRows(ObjectValues(map), "ppg", TRUE)
                 ELSE SortRows(ObjectValues(map), "yardsAllowed", FALSE)
    IN  << [script |-> "local", label |-> "2025 Season", rows |-> WithRanks("local", teams)],
           [script |-> "local", label |-> "2024 Season", rows |-> WithRanks("local", teams)] >>

(***************************************************************************)
(* Rankings page: the two DOMContentLoaded handlers.                       *)
(***************************************************************************)
ScoreboardKinds == {"reject", "badjson", "null", "noevents", "events"}

SnapshotKinds == {"reject", "badjson", "notarray", "list"}

StartLoop == [i |-> 0, statsArr |-> <<>>, j |-> 1, map |-> EmptyMap]

\* the request the loop waits for, as a line of the fetch log
LoopRequest(events, run) ==
    CASE run.pc = "sumfetch" -> <<[url |-> "summary", id |-> events[run.loop.i].id]>>
      [] run.pc = "teamfetch" -> <<[url |-> "team", id |-> run.loop.statsArr[run.loop.j].id]>>
      [] OTHER -> <<>>

\* the remote builder runs on from the loop state: to its next request, or to the
\* rendering of the table (lines 122-143 and 188-206)
RemoteRunOn(events, loop, cache) ==
    LET case == CategoryCase(category)
        run == RunLoop(case, events, loop, cache)
    IN  /\ rloop' = run.loop
        /\ rFetchLog' = rFetchLog \o LoopRequest(events, run)
        /\ IF run.pc = "render"
           THEN /\ rpc' = "done"
                /\ rankingsContainer' = Tables(<<RemoteTable(case, run.loop.map)>>)
           ELSE /\ rpc' = run.pc
                /\ UNCHANGED rankingsContainer

\* lines 370-391 up to the first await: the first handler registered
RemoteHandleLoad ==
    /\ page = "rankings" /\ rpc = "ready"
    /\ LET case == CategoryCase(category) IN
       IF case \in {"offense", "defense"}
       THEN /\ rankingsTitle' = RankingsTitle(case)
            /\ rankingsDescription' = RankingsDescription("remote", case)
            /\ rankingsContainer' = Message(LoadingRankings(case))
            /\ rFetchLog' = Append(rFetchLog, [url |-> "scoreboard", id |-> 0])
            /\ rpc' = "sbfetch"
       ELSE /\ rankingsTitle' = HandleLoadSync("remote", case).title
            /\ rankingsDescription' = HandleLoadSync("remote", case).description
            /\ rankingsContainer' = HandleLoadSync("remote", case).container
            /\ rpc' = "done"
            /\ UNCHANGED rFetchLog
    /\ UNCHANGED <<page, homeVars, gameVars, rankInputs, localVars,
                   rsb, rEvents, rloop, TEAM_CACHE, rEscaped>>

\* lines 99 and 167: the scoreboard fetch settles; a fetch settles in a task of its
\* own, after the dispatch of DOMContentLoaded has run both handlers
RemoteScoreboardFetchSettles ==
    /\ page = "rankings" /\ rpc = "sbfetch" /\ lpc # "ready"
    /\ \E kind \in ScoreboardKinds :
        /\ rsb' = kind
        /\ IF kind = "reject"
           THEN /\ rankingsContainer' = BuildRankingsCatch(CategoryCase(category)).container
                /\ rEscaped' = BuildRankingsCatch(CategoryCase(category)).escaped
                /\ rpc' = "done"
           ELSE /\ rpc' = "sbjson"
                /\ UNCHANGED <<rankingsContainer, rEscaped>>
    /\ UNCHANGED <<page, homeVars, gameVars, rankInputs, localVars,
                   rEvents, rloop, TEAM_CACHE, rFetchLog, rankingsTitle, rankingsDescription>>

\* lines 100-104 and 168-172: res.json() settles; data.events is read (a TypeError
\* when data is null) and the loop starts
RemoteScoreboardJsonSettles ==
    /\ page = "rankings" /\ rpc = "sbjson"
    /\ IF rsb \in {"badjson", "null"}
       THEN /\ rankingsContainer' = BuildRankingsCatch(CategoryCase(category)).container
            /\ rEscaped' = BuildRankingsCatch(CategoryCase(category)).escaped
            /\ rpc' = "done"
            /\ UNCHANGED <<rEvents, rloop, rFetchLog>>
       ELSE LET events == IF rsb = "events" THEN world ELSE <<>> IN
            /\ rEvents' = events
            /\ RemoteRunOn(events, StartLoop, TEAM_CACHE)
            /\ UNCHANGED rEscaped
    /\ UNCHANGED <<page, homeVars, gameVars, rankInputs, localVars,
                   rsb, TEAM_CACHE, rankingsTitle, rankingsDescription>>

\* fetchEventTeamStats without its catch clause: a failed summary request is
\* rethrown into the builder, whose catch clause ends the ranking
RemoteSummarySettles_NoCatch ==
    /\ page = "rankings" /\ rpc = "sumfetch"
    /\ LET event == rEvents[rloop.i] IN
       IF event.sheet = 0
       THEN /\ rankingsContainer' = BuildRankingsCatch(CategoryCase(category)).container
            /\ rpc' = "done"
            /\ UNCHANGED <<rloop, rFetchLog>>
       ELSE RemoteRunOn(rEvents, [rloop EXCEPT !.statsArr = EventTeamStats(event)], TEAM_CACHE)
    /\ UNCHANGED <<page, homeVars, gameVars, rankInputs, localVars,
                   rsb, rEvents, TEAM_CACHE, rEscaped, rankingsTitle, rankingsDescription>>

\* lines 66-80: the summary request of event i settles (the fetch and the parsing
\* of its body); fetchEventTeamStats returns [] when the request fails or the
\* summary holds no boxscore of two teams, and the loop goes on
RemoteSummarySettles ==
    /\ page = "rankings" /\ rpc = "sumfetch"
    /\ LET event == rEvents[rloop.i]
           statsArr == IF event.sheet = 0 THEN <<>> ELSE EventTeamStats(event)
       IN  RemoteRunOn(rEvents, [rloop EXCEPT !.statsArr = statsArr], TEAM_CACHE)
    /\ UNCHANGED <<page, homeVars, gameVars, rankInputs, localVars,
                   rsb, rEvents, TEAM_CACHE, rEscaped, rankingsTitle, rankingsDescription>>

\* getTeamInfo without its catch clause: a failed team request is rethrown into
\* the builder, whose catch clause ends the ranking
RemoteTeamSettles_NoCatch ==
    /\ page = "rankings" /\ rpc = "teamfetch"
    /\ LET id == rloop.statsArr[rloop.j].id
           cache == CacheTeam(TEAM_CACHE, id, TeamInfo(endpoints[id], id))
       IN  IF endpoints[id].fails
           THEN /\ rankingsContainer' = BuildRankingsCatch(CategoryCase(category)).container
                /\ rpc' = "done"
                /\ UNCHANGED <<TEAM_CACHE, rloop, rFetchLog>>
           ELSE /\ TEAM_CACHE' = cache
                /\ RemoteRunOn(rEvents, rloop, cache)
    /\ UNCHANGED <<page, homeVars, gameVars, rankInputs, localVars,
                   rsb, rEvents, rEscaped, rankingsTitle, rankingsDescription>>

\* lines 38-50: the team request settles (the fetch and the parsing of its body);
\* the record of the team, the null record when the request failed, is cached
RemoteTeamSettles ==
    /\ page = "rankings" /\ rpc = "teamfetch"
    /\ LET id == rloop.statsArr[rloop.j].id
           cache == CacheTeam(TEAM_CACHE, id, TeamInfo(endpoints[id], id))
       IN  /\ TEAM_CACHE' = cache
           /\ RemoteRunOn(rEvents, rloop, cache)
    /\ UNCHANGED <<page, homeVars, gameVars, rankInputs, localVars,
                   rsb, rEvents, rEscaped, rankingsTitle, rankingsDescription>>

\* lines 736-757 up to the first await: the second handler registered
LocalHandleLoad ==
    /\ page = "rankings" /\ lpc = "ready" /\ rpc # "ready"
    /\ LET case == CategoryCase(category) IN
       IF case \in {"offense", "defense"}
       THEN /\ rankingsTitle' = RankingsTitle(case)
            /\ rankingsDescription' = RankingsDescription("local", case)
            /\ rankingsContainer' = Message(LoadingRankings(case))
            /\ lFetchLog' = Append(lFetchLog, [url |-> "data/games.json", id |-> 0])
            /\ lpc' = "fetch"
       ELSE /\ rankingsTitle' = HandleLoadSync("local", case).title
            /\ rankingsDescription' = HandleLoadSync("local", case).description
            /\ rankingsContainer' = HandleLoadSync("local", case).container
            /\ lpc' = "done"
            /\ UNCHANGED lFetchLog
    /\ UNCHANGED <<page, homeVars, gameVars, rankInputs, remoteVars, lres, lEscaped>>

\* lines 439 and 514: the fetch of data/games.json settles
LocalFetchSettles ==
    /\ page = "rankings" /\ lpc = "fetch"
    /\ \E kind \in SnapshotKinds :
        /\ lres' = kind
        /\ IF kind = "reject"
           THEN /\ rankingsContainer' = BuildRankingsCatch(CategoryCase(category)).container
                /\ lEscaped' = BuildRankingsCatch(CategoryCase(category)).escaped
                /\ lpc' = "done"
           ELSE /\ lpc' = "json"
                /\ UNCHANGED <<rankingsContainer, lEscaped>>
    /\ UNCHANGED <<page, homeVars, gameVars, rankInputs, remoteVars, lFetchLog,
                   rankingsTitle, rankingsDescription>>

\* lines 440-496 and 515-562: res.json() settles; events.forEach is a TypeError
\* when the value is no array
LocalJsonSettles ==
    /\ page = "rankings" /\ lpc = "json"
    /\ LET case == CategoryCase(category) IN
       IF lres # "list"
       THEN /\ rankingsContainer' = BuildRankingsCatch(case).container
            /\ lEscaped' = BuildRankingsCatch(case).escaped
       ELSE /\ rankingsContainer' =
                  Tables(LocalTables(case, LocalAggregate(case, world, endpoints, 1, 1, EmptyMap)))
            /\ UNCHANGED lEscaped
    /\ lpc' = "done"
    /\ UNCHANGED <<page, homeVars, gameVars, rankInputs, remoteVars, lres, lFetchLog,
                   rankingsTitle, rankingsDescription>>

(***************************************************************************)
(* Specifications: one per page, and one of the site, where the page is    *)
(* the document the visitor opened.                                        *)
(***************************************************************************)
IdleParam == [present |-> FALSE, value |-> ""]

InitHomeVars ==
    /\ hpc = "ready"
    /\ hres = NoResponse
    /\ gamesContainer = [msg |-> "", cards |-> <<>>]
    /\ hFetches = 0
    /\ hEscaped = FALSE

InitGameVars ==
    /\ gpc = "ready"
    /\ gres = NoSummaryResponse
    /\ gameTitle = ""
    /\ summaryContainer = EmptyContainer
    /\ gFetches = 0
    /\ gEscaped = FALSE

InitRankVars ==
    /\ rpc = "ready" /\ rsb = "none" /\ rEvents = <<>> /\ rloop = StartLoop
    /\ TEAM_CACHE = EmptyMap /\ rFetchLog = <<>> /\ rEscaped = FALSE
    /\ lpc = "ready" /\ lres = "none" /\ lFetchLog = <<>> /\ lEscaped = FALSE
    /\ rankingsTitle = "" /\ rankingsDescription = "" /\ rankingsContainer = Message("")

IdleRankInputs ==
    /\ category = [present |-> FALSE, value |-> <<>>]
    /\ world = <<>>
    /\ endpoints = [t \in {} |-> 0]

InitHome ==
    /\ page = "home" /\ InitHomeVars
    /\ InitGameVars /\ gParam = IdleParam /\ InitRankVars /\ IdleRankInputs

InitGame ==
    /\ page = "game" /\ InitGameVars /\ gParam \in EventParams
    /\ InitHomeVars /\ InitRankVars /\ IdleRankInputs

InitRankings ==
    /\ page = "rankings" /\ InitRankVars
    /\ category \in CategoryParams /\ world \in Worlds /\ endpoints \in TeamEndpoints
    /\ InitHomeVars /\ InitGameVars /\ gParam = IdleParam

Init == InitHome \/ InitGame \/ InitRankings

NextHome == LoadGamesStart \/ LoadGamesFetchSettles \/ LoadGamesJsonSettles

NextGame == LoadGameStart \/ LoadGameFetchSettles \/ LoadGameJsonSettles

NextRankings ==
    \/ RemoteHandleLoad \/ RemoteScoreboardFetchSettles \/ RemoteScoreboardJsonSettles
    \/ RemoteSummarySettles \/ RemoteTeamSettles
    \/ LocalHandleLoad \/ LocalFetchSettles \/ LocalJsonSettles

Next == NextHome \/ NextGame \/ NextRankings

SpecHome == InitHome /\ [][NextHome]_vars

SpecRankings == InitRankings /\ [][NextRankings]_vars

Spec == Init /\ [][Next]_vars

SpecGame == InitGame /\ [][NextGame]_vars

\* the homepage when every pending promise settles: DOMContentLoaded is
\* dispatched, the fetch of the snapshot settles, and so does res.json()
SpecHomeFair ==
    /\ SpecHome
    /\ WF_vars(LoadGamesStart)
    /\ WF_vars(LoadGamesFetchSettles)
    /\ WF_vars(LoadGamesJsonSettles)

(***************************************************************************)
(* Homepage: properties.                                                   *)
(***************************************************************************)
Range(f) == {f[i] : i \in DOMAIN f}

CardsOf(id) == {c \in Range(gamesContainer.cards) : c.eventId = id}

NoPower4Competitor(event) ==
    \A k \in DOMAIN event.competitors : event.competitors[k].groupId \notin {1, 4, 5, 8}

\* C1: an event of the loaded snapshot none of whose competitors has a groupId in
\* {1,4,5,8} (a null groupId included) never has a game card in the games container.
C1_NonPower4Excluded ==
    \A i \in DOMAIN hres.events :
        NoPower4Competitor(hres.events[i]) => CardsOf(hres.events[i].id) = {}

\* cards are on the page although the snapshot holds an event without a Power-4
\* team whose competitors have a (non-null) groupId and both sides
C1_Witness ==
    /\ hpc = "done" /\ gamesContainer.cards # <<>>
    /\ \E i \in DOMAIN hres.events :
        /\ NoPower4Competitor(hres.events[i])
        /\ Len(hres.events[i].competitors) = 2
        /\ \E k \in 1..2 : hres.events[i].competitors[k].groupId = 12
        /\ {hres.events[i].competitors[k].homeAway : k \in 1..2} = {"home", "away"}

\* one home and one away competitor, both in a Power-4 conference, of different ones
CrossConference(event) ==
    /\ Len(event.competitors) = 2
    /\ {event.competitors[k].homeAway : k \in 1..2} = {"home", "away"}
    /\ \A k \in 1..2 : event.competitors[k].groupId \in {1, 4, 5, 8}
    /\ event.competitors[1].groupId # event.competitors[2].groupId

TheSide(event, side) == CHOOSE c \in Range(event.competitors) : c.homeAway = side

\* C2: the card of an event between a home and an away team of two different
\* Power-4 conferences carries the bar class of the home team's conference,
\* whichever of the two comes first in the competitors array.
C2_HomeConferenceBar ==
    \A i \in DOMAIN hres.events :
        CrossConference(hres.events[i]) =>
            \A c \in CardsOf(hres.events[i].id) :
                c.barClass = CONFERENCE_CLASS(TheSide(hres.events[i], "home").groupId)

\* such an event is displayed with the away team first in the array
C2_Witness ==
    \E i \in DOMAIN hres.events :
        /\ CrossConference(hres.events[i])
        /\ hres.events[i].competitors[1].homeAway = "away"
        /\ CardsOf(hres.events[i].id) # {}

\* the spread line the three cases call for
ExpectedSpreadLine(event) ==
    LET sp == event.spread IN
    IF sp.t = "number" /\ sp.v < 0
    THEN TheSide(event, "home").abbreviation \o " " \o ToString(0 - sp.v)
    ELSE IF sp.t = "number" /\ sp.v > 0
    THEN TheSide(event, "away").abbreviation \o " " \o ToString(sp.v)
    ELSE "Pick"

\* C3: the spread shown on a card is the home abbreviation and abs(spread) for a
\* numeric spread below zero, the away abbreviation and the spread for a numeric
\* spread above zero, and "Pick" for an absent, non-numeric or zero spread; it is
\* never blank and never "N/A".
C3_SpreadLineCases ==
    \A i \in DOMAIN hres.events :
        \A c \in CardsOf(hres.events[i].id) :
            /\ c.spreadLine = ExpectedSpreadLine(hres.events[i])
            /\ c.spreadLine \notin {"", "N/A", "undefined", "null"}

\* one page shows a home favourite and an away favourite
C3_Witness ==
    /\ \E c \in Range(gamesContainer.cards) : c.spreadLine = "AAA 3"
    /\ \E c \in Range(gamesContainer.cards) : c.spreadLine = "AAA 6"

\* C10: the cards of the games container are in the order of their events in the
\* snapshot: of two displayed cards the earlier one is of the earlier event.
C10_SourceOrder ==
    \A j, k \in DOMAIN gamesContainer.cards :
        j < k =>
            \E m, n \in DOMAIN hres.events :
                /\ m < n
                /\ hres.events[m].id = gamesContainer.cards[j].eventId
                /\ hres.events[n].id = gamesContainer.cards[k].eventId

\* two cards are displayed
C10_Witness == hpc = "done" /\ Len(gamesContainer.cards) = 2

(***************************************************************************)
(* Rankings page: properties.                                              *)
(***************************************************************************)
TablesShown == rankingsContainer.msg = "" /\ rankingsContainer.tables # <<>>

BothHandlersDone == rpc = "done" /\ lpc = "done"

\* C4: with category=offense, the rows of every table in the rankings container
\* are in non-increasing order of points per game, and row i shows rank i.
C4_OffenseOrder ==
    (page = "rankings" /\ CategoryCase(category) = "offense" /\ TablesShown) =>
        \A n \in DOMAIN rankingsContainer.tables :
            LET rows == rankingsContainer.tables[n].rows IN
            /\ \A i \in DOMAIN rows : rows[i].rank = i
            /\ \A i, j \in DOMAIN rows : i < j => rows[i].team.ppg >= rows[j].team.ppg

\* the load is over and a table shows teams with 30, 20 and 10 points per game,
\* which the team ids order as 10, 30, 20
C4_Witness ==
    /\ CategoryCase(category) = "offense" /\ BothHandlersDone /\ TablesShown
    /\ \E n \in DOMAIN rankingsContainer.tables :
        LET rows == rankingsContainer.tables[n].rows IN
        /\ Len(rows) = 3
        /\ <<rows[1].team.ppg, rows[2].team.ppg, rows[3].team.ppg>> = <<30, 20, 10>>
        /\ <<rows[1].team.name, rows[2].team.name, rows[3].team.name>> = <<"Beta", "Gamma", "Alpha">>

\* the points allowed per game of a row, whichever script built it
PointsAllowed(row) ==
    IF "ppgAllowed" \in DOMAIN row.team THEN row.team.ppgAllowed ELSE row.team.ptsAllowed

\* C5: with category=defense, once both handlers are done the rows of the tables
\* shown are in non-decreasing order of points allowed per game, whatever the
\* yards allowed.
C5_DefenseOrderByPoints ==
    (page = "rankings" /\ CategoryCase(category) = "defense" /\ BothHandlersDone /\ TablesShown) =>
        \A n \in DOMAIN rankingsContainer.tables :
            LET rows == rankingsContainer.tables[n].rows IN
            \A i, j \in DOMAIN rows : i < j => PointsAllowed(rows[i]) <= PointsAllowed(rows[j])

Instructions == "Please select a category from the navigation menu to view rankings."

\* the parameter values that name no category
UnknownCategory ==
    \/ ~category.present
    \/ category.value \in {Chars(""), Chars("offence"), Chars("offense ")}

\* C6: the category parameter is matched against offense, defense, returning and
\* sos whatever the case of its letters; for any other value, and without the
\* parameter, the page shows the instructions, the rankings container stays
\* empty, no request is issued and no exception leaves a handler.
C6_CategoryDispatch ==
    (page = "rankings" /\ rpc # "ready") =>
        /\ category.value = Chars("OFFENSE") => rankingsTitle = "Offensive Rankings"
        /\ category.value = Chars("defense") => rankingsTitle = "Defensive Rankings"
        /\ category.value \in {Chars("Returning"), Chars("returning")} =>
                rankingsTitle = "Returning Production Rankings"
        /\ category.value \in {Chars("SoS"), Chars("sos")} =>
                rankingsTitle = "Strength of Schedule Rankings"
        /\ UnknownCategory =>
                /\ rankingsTitle = "Rankings"
                /\ rankingsDescription = Instructions
                /\ rankingsContainer = [msg |-> "", tables |-> <<>>]
                /\ rFetchLog = <<>> /\ lFetchLog = <<>>
                /\ ~rEscaped /\ ~lEscaped
                /\ rpc = "done" /\ lpc \in {"ready", "done"}

\* both handlers have run for a parameter that is present and names no category
C6_Witness ==
    /\ page = "rankings" /\ BothHandlersDone
    /\ category.present /\ category.value = Chars("offense ")
    /\ rankingsDescription = Instructions

\* the times the team endpoint was requested for a team id
TeamFetches(id) ==
    Cardinality({k \in DOMAIN rFetchLog : rFetchLog[k] = [url |-> "team", id |-> id]})

\* the summaries of the events up to i have been used, those of team t included
InEvent(t, i) == i \in DOMAIN rEvents /\ rEvents[i].sheet # 0 /\ t \in {rEvents[i].teams[1], rEvents[i].teams[2]}

\* C8: the team endpoint is requested at most once per team id, however many
\* events the team is in, also when the request failed: a team is in TEAM_CACHE
\* exactly when it has been requested and answered, and a failed request leaves
\* the null record there.
C8_TeamFetchedOnce ==
    \A t \in TeamIds :
        /\ TeamFetches(t) <= 1
        /\ t \in DOMAIN TEAM_CACHE => TeamFetches(t) = 1
        /\ (t \in DOMAIN TEAM_CACHE /\ endpoints[t].fails) =>
                TEAM_CACHE[t] = [groupId |-> NoGroup, name |-> ""]

\* the remote builder is done, and a team whose request failed is in two events
C8_Witness ==
    /\ page = "rankings" /\ rpc = "done"
    /\ \E t \in TeamIds :
        /\ t \in DOMAIN TEAM_CACHE /\ endpoints[t].fails
        /\ InEvent(t, 1) /\ InEvent(t, 2)

(***************************************************************************)
(* Game detail page: properties.                                           *)
(***************************************************************************)
UnknownEventRequested ==
    page = "game" /\ gParam.present /\ gParam.value # "" /\ gParam.value \notin KnownEvents

\* C7 as stated: for an event the data source does not know, the page ends
\* displaying 'Game not found', and no exception leaves the handler.
C7_GameNotFound ==
    (UnknownEventRequested /\ gpc = "done") => (gameTitle = "Game not found" /\ ~gEscaped)

\* C7 as amended: for an event the data source does not know, the page ends with
\* the title 'Summary not available' when the endpoint answers with a JSON
\* document, and with 'Failed to load summary' when the request fails or its body
\* is null or not JSON; the summary container holds no table and no exception
\* leaves the handler.
C7_SummaryNotAvailable ==
    (UnknownEventRequested /\ gpc = "done") =>
        /\ gameTitle = IF gres.kind = "json" /\ ~gres.summary.isNull
                       THEN "Summary not available" ELSE "Failed to load summary"
        /\ summaryContainer = [table |-> <<>>, infoDiv |-> FALSE, info |-> <<>>]
        /\ ~gEscaped

\* the endpoint answered the unknown event with a document listing one team
C7_Witness ==
    /\ UnknownEventRequested /\ gpc = "done"
    /\ gres.kind = "json" /\ Len(gres.summary.teams) = 1
    /\ gameTitle = "Summary not available"

(***************************************************************************)
(* The top-level failure policy of the four handlers.                      *)
(***************************************************************************)
FailedSummaryShown ==
    /\ gameTitle' = "Failed to load summary"
    /\ summaryContainer'.table = <<>> /\ ~gEscaped'

FailedGamesShown ==
    gamesContainer' = [msg |-> FailedGames, cards |-> <<>>] /\ ~hEscaped'

FailedRankingsShown(escaped) ==
    /\ rankingsContainer' = [msg |-> FailedRankings(CategoryCase(category)), tables |-> <<>>]
    /\ ~escaped

\* the handlers other than the remote builder: a handler that finishes after its
\* fetch was rejected or its body was not JSON, or not a list that can be
\* iterated, leaves the failure message and nothing else
FailurePolicyElsewhere ==
    /\ (hpc # "done" /\ hpc' = "done" /\ hres'.kind \in {"reject", "badjson", "notiterable"})
            => FailedGamesShown
    /\ (gpc = "fetch" /\ gpc' = "done" /\ gres'.kind = "reject") => FailedSummaryShown
    /\ (gpc = "json" /\ gpc' = "done" /\ gres'.kind = "badjson") => FailedSummaryShown
    /\ (lpc # "done" /\ lpc' = "done" /\ lres' \in {"reject", "badjson", "notarray"})
            => FailedRankingsShown(lEscaped')

\* C9 as stated: a handler that finishes after its primary fetch was rejected,
\* or its body was not JSON or held no list of events, leaves the static 'Failed
\* to load' message, no partial content, and lets no exception out.
C9_FailurePolicy ==
    [][ /\ FailurePolicyElsewhere
        /\ (rpc # "done" /\ rpc' = "done" /\ rsb' \in {"reject", "badjson", "null", "noevents"})
                => FailedRankingsShown(rEscaped') ]_vars

\* C9 as amended: as stated, except that the remote ranking builders take a parsed
\* scoreboard whose events field is no array for an empty event list and render
\* a table without rows; they fail only when the fetch is rejected or the body is
\* not JSON or is null.
C9_FailurePolicyAmended ==
    [][ /\ FailurePolicyElsewhere
        /\ (rpc # "done" /\ rpc' = "done" /\ rsb' \in {"reject", "badjson", "null"})
                => FailedRankingsShown(rEscaped')
        /\ (rpc # "done" /\ rpc' = "done" /\ rsb' = "noevents")
                => /\ rankingsContainer'.msg = "" /\ Len(rankingsContainer'.tables) = 1
                   /\ rankingsContainer'.tables[1].rows = <<>>
                   /\ ~rEscaped' ]_vars

\* the remote builder has finished on a scoreboard that was not JSON, and the
\* page shows its failure message
C9_Witness ==
    /\ page = "rankings" /\ rpc = "done" /\ rsb = "badjson"
    /\ rankingsContainer.msg \in {"Failed to load offensive rankings.",
                                  "Failed to load defensive rankings."}

(***************************************************************************)
(* Ranking aggregation: properties.                                        *)
(***************************************************************************)
\* the team endpoint, or the snapshot, puts the team in a Power-4 conference
Qualifies(t) == ~endpoints[t].fails /\ endpoints[t].groupsId \in {1, 4, 5, 8}

\* the event sequence a builder read: the events of the scoreboard, none when its
\* events field is no array, or the list of the snapshot
EventsOf(script) == IF script = "remote" THEN rEvents ELSE world

\* the events a builder meets team t in: the remote builder takes the teams of an
\* event from its summary, the local one from the competitors of the snapshot
Occurrences(script, t) ==
    {i \in DOMAIN EventsOf(script) :
        /\ t \in {EventsOf(script)[i].teams[1], EventsOf(script)[i].teams[2]}
        /\ (script = "remote" => EventsOf(script)[i].sheet # 0)}

FirstOccurrence(script, t) ==
    CHOOSE i \in Occurrences(script, t) : \A k \in Occurrences(script, t) : i <= k

\* the four statistics a row shows, in the order of RankKeys
RowStats(case, row) ==
    IF case = "offense" THEN <<row.ppg, row.yards, row.passYards, row.rushYards>>
    ELSE <<PointsAllowed([team |-> row]), row.yardsAllowed, row.passAllowed, row.rushAllowed>>

\* the four statistics of team t on a sheet, 0 for one the sheet does not hold
FirstSeenStats(case, sheet, t) ==
    [k \in 1..4 |->
        LET v == SheetValues(sheet, t)[IF case = "offense" THEN k ELSE k + 4]
        IN  IF v = NaN THEN 0 ELSE v]

\* C11: an offense or defense table holds exactly one row per qualifying team the
\* builder met, and the row shows the statistics of the first event the team was
\* met in, 0 for a statistic absent there, whatever later events hold.
C11_FirstSeenWins ==
    (page = "rankings" /\ CategoryCase(category) \in {"offense", "defense"} /\ TablesShown) =>
        \A n \in DOMAIN rankingsContainer.tables :
            LET tb == rankingsContainer.tables[n]
                case == CategoryCase(category)
                met == {t \in TeamIds : Qualifies(t) /\ Occurrences(tb.script, t) # {}}
            IN  /\ Len(tb.rows) = Cardinality(met)
                /\ \A t \in met : \E i \in DOMAIN tb.rows :
                      /\ tb.rows[i].team.name = TeamName(t)
                      /\ RowStats(case, tb.rows[i].team) =
                            FirstSeenStats(case, EventsOf(tb.script)[FirstOccurrence(tb.script, t)].sheet, t)

\* the offense table shows 0 points for Alpha, whose first event holds no points
\* value while its second event holds 10
C11_Witness ==
    /\ page = "rankings" /\ CategoryCase(category) = "offense" /\ BothHandlersDone /\ TablesShown
    /\ Len(world) = 2 /\ world[1].sheet = 2 /\ world[2].sheet = 1
    /\ 1 \in {world[1].teams[1], world[1].teams[2]} \cap {world[2].teams[1], world[2].teams[2]}
    /\ \E i \in DOMAIN rankingsContainer.tables[1].rows :
          LET row == rankingsContainer.tables[1].rows[i].team IN
          row.name = "Alpha" /\ row.ppg = 0 /\ row.yards = 250

(***************************************************************************)
(* Returning production and strength of schedule: properties.              *)
(***************************************************************************)
\* the display names of the qualifying teams of the schedule
QualifyingNames ==
    {TeamName(t) : t \in {u \in TeamIds : Qualifies(u) /\ Occurrences("local", u) # {}}}

\* C12 as stated: the returning ranking shows a curated entry only when its name
\* is the display name of a qualifying team of the loaded data.
C12_JoinedByName ==
    (page = "rankings" /\ CategoryCase(category) = "returning" /\ TablesShown) =>
        \A n \in DOMAIN rankingsContainer.tables :
            \A i \in DOMAIN rankingsContainer.tables[n].rows :
                rankingsContainer.tables[n].rows[i].team.team \in QualifyingNames

\* C12 as amended: the returning ranking joins nothing: without any request it
\* shows every curated entry once, whatever teams the data sources hold, in
\* non-increasing order of the total, row i with rank i, and without an error.
C12_WholeCuratedList ==
    (page = "rankings" /\ CategoryCase(category) = "returning" /\ rpc # "ready") =>
        /\ rankingsContainer.msg = "" /\ Len(rankingsContainer.tables) = 1
        /\ LET rows == rankingsContainer.tables[1].rows IN
            /\ Len(rows) = Len(returningData)
            /\ \A e \in DOMAIN returningData :
                  Cardinality({i \in DOMAIN rows : rows[i].team = returningData[e]})
                    = Cardinality({k \in DOMAIN returningData : returningData[k] = returningData[e]})
            /\ \A i \in DOMAIN rows : rows[i].rank = i
            /\ \A i \in DOMAIN rows : i > 1 => rows[i - 1].team.total >= rows[i].team.total
        /\ rFetchLog = <<>> /\ lFetchLog = <<>>
        /\ ~rEscaped /\ ~lEscaped

\* both handlers have shown the ranking while the schedule holds qualifying teams,
\* none of them in the curated list
C12_Witness ==
    /\ page = "rankings" /\ CategoryCase(category) = "returning" /\ BothHandlersDone
    /\ QualifyingNames # {}
    /\ TablesShown /\ Len(rankingsContainer.tables[1].rows) = 55
    /\ rankingsContainer.tables[1].rows[1].team.team \notin QualifyingNames

\* C13: with category=sos the rankings container shows the placeholder message
\* from the first handler on, whatever the data sources hold; no request is
\* issued, no 'Failed to load' message is shown and no exception leaves a handler.
C13_SosPlaceholder ==
    (page = "rankings" /\ CategoryCase(category) = "sos" /\ rpc # "ready") =>
        /\ rankingsContainer =
              [msg |-> "Strength of schedule rankings will be added soon.", tables |-> <<>>]
        /\ rankingsTitle = "Strength of Schedule Rankings"
        /\ rFetchLog = <<>> /\ lFetchLog = <<>>
        /\ ~rEscaped /\ ~lEscaped
        /\ rpc = "done" /\ lpc \in {"ready", "done"}

\* both handlers are done for category=SoS while the data sources hold a schedule
\* with a team whose lookup would fail
C13_Witness ==
    /\ page = "rankings" /\ category.value = Chars("SoS") /\ BothHandlersDone
    /\ world # <<>> /\ \E t \in TeamIds : endpoints[t].fails
    /\ rankingsContainer.msg = SosPlaceholder

(***************************************************************************)
(* Game detail page: missing data and the comparison table.                *)
(***************************************************************************)
\* loadGame is done and the endpoint answered with a boxscore of two teams or more
TwoTeamSummaryRendered ==
    /\ page = "game" /\ gpc = "done"
    /\ gres.kind = "json" /\ ~gres.summary.isNull
    /\ gres.summary.boxscore = "teams" /\ Len(gres.summary.teams) >= 2

\* C14: a summary with two teams or more ends with the comparison table shown and
\* a title 'A vs B', never with a failure or unavailable title, whichever of the
\* statistics, team sub-records, venue address and weather it lacks.
C14_MissingDataNoFailure ==
    TwoTeamSummaryRendered =>
        /\ gameTitle \notin {"Failed to load summary", "Summary not available"}
        /\ summaryContainer.table # <<>>
        /\ (gres.summary.teams[1].hasTeam /\ gres.summary.teams[2].hasTeam) =>
              gameTitle = gres.summary.teams[1].name \o " vs " \o gres.summary.teams[2].name
        /\ ~gEscaped

\* the metrics of the comparison table, in their row order
MetricLabels ==
    <<"Points Per Game", "Total Yards", "Passing Yards", "Rushing Yards",
      "Points Allowed", "Yards Allowed", "Pass Yards Allowed", "Rush Yards Allowed">>

\* what a cell shows for a team and a metric: the team's display value, or the dash
\* when the team has none
ExpectedCell(team, key) ==
    IF key \in DOMAIN team.stats /\ team.stats[key] # "" THEN team.stats[key] ELSE "-"

\* C15: for a summary with two teams or more the table has, under its header,
\* exactly eight rows in the fixed order of the metrics, and each of the two cells
\* of a row shows its own team's value or the dash, whatever the other team has.
C15_EightFixedRows ==
    TwoTeamSummaryRendered =>
        /\ Len(summaryContainer.table) = 9
        /\ \A k \in 1..8 :
              /\ summaryContainer.table[k + 1].label = MetricLabels[k]
              /\ summaryContainer.table[k + 1].a = ExpectedCell(gres.summary.teams[1], RankKeys[k])
              /\ summaryContainer.table[k + 1].b = ExpectedCell(gres.summary.teams[2], RankKeys[k])

(***************************************************************************)
(* The requests of a page load.                                            *)
(***************************************************************************)
\* the times the remote script requested a kind of document
RemoteRequests(url) == Cardinality({k \in DOMAIN rFetchLog : rFetchLog[k].url = url})

\* C16: a page load issues at most one top-level request, the snapshot or the
\* scoreboard and never both, and beyond it only team lookups, at most one per
\* team id: no request per event.
C16_FetchBudget ==
    /\ hFetches <= 1 /\ gFetches <= 1
    /\ RemoteRequests("scoreboard") + Len(lFetchLog) <= 1
    /\ RemoteRequests("summary") = 0
    /\ \A t \in TeamIds : TeamFetches(t) <= 1

(***************************************************************************)
(* Failed team lookups of the remote builders.                             *)
(***************************************************************************)
\* the remote builder takes its last step on a scoreboard with events
RemoteBuilderFinishes == rpc # "done" /\ rpc' = "done" /\ rsb' = "events"

\* C17: a team whose lookup fails is cached with the null group and the empty
\* name and gets no row, and the ranking goes on: the remote builder ends with its
\* table, not with 'Failed to load', and the table has a row for every qualifying
\* team of the summaries, those met after the failed lookup included.
C17_LookupFailureTolerated ==
    [][ RemoteBuilderFinishes =>
          /\ rankingsContainer'.msg = "" /\ Len(rankingsContainer'.tables) = 1
          /\ ~rEscaped'
          /\ LET rows == rankingsContainer'.tables[1].rows IN
             \A t \in TeamIds :
                /\ (t \in DOMAIN TEAM_CACHE' /\ endpoints[t].fails) =>
                      /\ TEAM_CACHE'[t] = [groupId |-> 0, name |-> ""]
                      /\ \A i \in DOMAIN rows : rows[i].team.name # TeamName(t)
                /\ (Qualifies(t) /\ \E i \in DOMAIN rEvents' : InEvent(t, i)') =>
                      \E i \in DOMAIN rows : rows[i].team.name = TeamName(t) ]_vars

\* the remote builder is done: the lookup of Beta failed in the first event, and
\* Gamma, met after it in the same event and in the next one, has its row
C17_Witness ==
    /\ page = "rankings" /\ rpc = "done" /\ rsb = "events"
    /\ Len(rEvents) = 2 /\ rEvents[1].teams = <<2, 3>> /\ rEvents[1].sheet # 0
    /\ rEvents[2].teams = <<1, 3>> /\ rEvents[2].sheet # 0
    /\ endpoints[2].fails /\ 2 \in DOMAIN TEAM_CACHE /\ TEAM_CACHE[2].name = ""
    /\ TablesShown /\ rankingsContainer.tables[1].script = "remote"
    /\ Len(rankingsContainer.tables[1].rows) = 1
    /\ rankingsContainer.tables[1].rows[1].team.name = "Gamma"

(***************************************************************************)
(* Homepage: the lifecycle of a page load.                                 *)
(***************************************************************************)
\* loadGames is over with one of its three final contents
HomeTerminal ==
    /\ hpc = "done"
    /\ \/ gamesContainer.msg = "" /\ gamesContainer.cards # <<>>
       \/ gamesContainer.msg = "No Power-4 games found for this date." /\ gamesContainer.cards = <<>>
       \/ gamesContainer.msg = "Failed to load games. Please try again later."
            /\ gamesContainer.cards = <<>>

\* C18: the games container shows the loading message while the fetch of the
\* snapshot, or the reading of its body, is pending; once the fetch is issued and
\* settles, the page reaches one of its three final contents; from then on the
\* container never changes, and the fetch is issued once.
C18_Lifecycle ==
    /\ []((page = "home" /\ hpc \in {"fetch", "json"}) =>
            gamesContainer = [msg |-> LoadingGames, cards |-> <<>>])
    /\ (page = "home" /\ hpc = "fetch") ~> HomeTerminal
    /\ [][hpc = "done" => (hpc' = "done" /\ gamesContainer' = gamesContainer /\ hFetches' = hFetches)]_vars
    /\ [](hFetches <= 1)

\* the page load is over after its one fetch, with the message of a snapshot
\* without Power-4 games
C18_Witness ==
    /\ page = "home" /\ hpc = "done" /\ hFetches = 1
    /\ hres.kind = "list" /\ Len(hres.events) = 2
    /\ gamesContainer = [msg |-> NoGamesFound, cards |-> <<>>]

(***************************************************************************)
(* Rankings page: the two handlers and the one container.                  *)
(***************************************************************************)
\* a builder has put its tables into the container at its last step
RemoteRendered == rpc = "done" /\ rsb \in {"events", "noevents"}
LocalRendered == lpc = "done" /\ lres = "list"

\* C19: for category offense or defense the final content of the rankings
\* container does not depend on the order in which the requests of the two
\* handlers settle; in particular, once both handlers are done, the container
\* holds no 'Failed to load' message when one of them rendered its tables.
C19_FailureNeverFinal ==
    (/\ page = "rankings" /\ CategoryCase(category) \in {"offense", "defense"}
     /\ BothHandlersDone /\ (RemoteRendered \/ LocalRendered))
        => rankingsContainer.msg = ""

(***************************************************************************)
(* Ranking tables: the order of tied teams.                                *)
(***************************************************************************)
\* the team id a row stands for
TeamIdOf(row) == CHOOSE t \in TeamIds : TeamName(t) = row.team.name

\* the value a table is sorted by
SortKeyOf(table, row) ==
    CASE "ppg" \in DOMAIN row.team -> row.team.ppg
      [] table.script = "remote" -> row.team.ppgAllowed
      [] OTHER -> row.team.yardsAllowed

\* the builder met team t before team u in its event sequence
MetBefore(script, t, u) ==
    LET i == FirstOccurrence(script, t)
        j == FirstOccurrence(script, u)
    IN  i < j \/ (i = j /\ EventsOf(script)[i].teams[1] = t)

\* the pairs of rows of a table with the same sort key, the upper row first
TiedRows(table) ==
    {p \in (DOMAIN table.rows) \X (DOMAIN table.rows) :
        /\ p[1] < p[2]
        /\ SortKeyOf(table, table.rows[p[1]]) = SortKeyOf(table, table.rows[p[2]])}

RankingTablesShown ==
    page = "rankings" /\ CategoryCase(category) \in {"offense", "defense"} /\ TablesShown

\* C20 as stated: in an offense or defense table, teams with the same sort key
\* stand in the order in which the builder first met them in its event sequence.
C20_TiesInEncounterOrder ==
    RankingTablesShown =>
        \A n \in DOMAIN rankingsContainer.tables :
            LET tb == rankingsContainer.tables[n] IN
            \A p \in TiedRows(tb) :
                MetBefore(tb.script, TeamIdOf(tb.rows[p[1]]), TeamIdOf(tb.rows[p[2]]))

\* C20 as amended: in an offense or defense table, teams with the same sort key
\* stand in ascending order of their numeric team ids, whatever the order in which
\* the builder first met them.
C20_TiesInTeamIdOrder ==
    RankingTablesShown =>
        \A n \in DOMAIN rankingsContainer.tables :
            LET tb == rankingsContainer.tables[n] IN
            \A p \in TiedRows(tb) : TeamIdOf(tb.rows[p[1]]) < TeamIdOf(tb.rows[p[2]])

\* the load is over with a table in which two tied teams stand in the order of
\* their ids although the builder met the lower one first
C20_Witness ==
    /\ RankingTablesShown /\ BothHandlersDone
    /\ \E n \in DOMAIN rankingsContainer.tables :
        LET tb == rankingsContainer.tables[n] IN
        \E p \in TiedRows(tb) :
            /\ TeamIdOf(tb.rows[p[1]]) < TeamIdOf(tb.rows[p[2]])
            /\ MetBefore(tb.script, TeamIdOf(tb.rows[p[2]]), TeamIdOf(tb.rows[p[1]]))

(***************************************************************************)
(* Game detail page: what a failure leaves displayed.                      *)
(***************************************************************************)
\* loadGame is over with the failure title
LoadGameFailed ==
    page = "game" /\ gpc = "done" /\ gameTitle = "Failed to load summary"

\* C21: whenever loadGame ends with the title 'Failed to load summary', the
\* summary container holds no comparison table.
C21_FailureAllOrNothing ==
    LoadGameFailed => summaryContainer.table = <<>>

(***************************************************************************)
(* Homepage: which events get a card.                                      *)
(***************************************************************************)
HasSide(event, side) ==
    \E k \in DOMAIN event.competitors : event.competitors[k].homeAway = side

\* a competitor of a Power-4 conference, and both a home and an away competitor
Included(event) ==
    /\ ~NoPower4Competitor(event)
    /\ HasSide(event, "home") /\ HasSide(event, "away")

\* loadGames is over and the snapshot was a list of event records
SnapshotListLoaded ==
    /\ page = "home" /\ hpc = "done" /\ hres.kind = "list"
    /\ \A i \in DOMAIN hres.events : ~hres.events[i].isNull

\* C22: an event of the loaded snapshot has a game card if and only if one of its
\* competitors has a groupId in {1,4,5,8} and its competitors hold both a home and
\* an away competitor; it has one card only, and an event with a qualifying team
\* that lacks a side is dropped without ending the loop (the later events still get
\* their cards) and without the failure message.
C22_InclusionNeedsBothSides ==
    SnapshotListLoaded =>
        /\ \A i \in DOMAIN hres.events :
              CardsOf(hres.events[i].id) # {} <=> Included(hres.events[i])
        /\ Len(gamesContainer.cards) =
              Cardinality({i \in DOMAIN hres.events : Included(hres.events[i])})
        /\ gamesContainer.msg # FailedGames
        /\ ~hEscaped

\* the first event has a Power-4 team and no away competitor and has no card; the
\* second event, after it, has its card
C22_Witness ==
    /\ SnapshotListLoaded /\ Len(hres.events) = 2
    /\ ~NoPower4Competitor(hres.events[1])
    /\ HasSide(hres.events[1], "home") /\ ~HasSide(hres.events[1], "away")
    /\ CardsOf(hres.events[1].id) = {}
    /\ Included(hres.events[2])
    /\ CardsOf(hres.events[2].id) # {}

(***************************************************************************)
(* Failed summary requests of the remote builders.                         *)
(***************************************************************************)
\* the summary requests of a fetch log, in the order they were issued
SummaryRequests(log) == SelectSeq(log, LAMBDA r : r.url = "summary")

\* the summary request of event i failed, or its summary held no two teams
SummaryFailed(events, i) == events[i].sheet = 0

\* C23: a summary request that fails yields no teams and nothing else: the remote
\* builder ends with its table, not with 'Failed to load'; the table has a row for
\* each qualifying team of the events whose summary was read and for no other
\* team, so a failed event contributes no row and the events after it are still
\* processed; the summaries were requested once per event, in the order of the
\* scoreboard, the failed ones included, and no summary is ever requested twice.
C23_SummaryFailureLocal ==
    /\ [][ RemoteBuilderFinishes =>
             /\ rankingsContainer'.msg = "" /\ Len(rankingsContainer'.tables) = 1
             /\ ~rEscaped'
             /\ SummaryRequests(rFetchLog') =
                   [i \in DOMAIN rEvents' |-> [url |-> "summary", id |-> rEvents'[i].id]]
             /\ LET rows == rankingsContainer'.tables[1].rows
                    read == {i \in DOMAIN rEvents' : ~SummaryFailed(rEvents', i)}
                    met == {t \in TeamIds :
                              Qualifies(t) /\ \E i \in read : t \in Range(rEvents'[i].teams)}
                IN  {rows[i].team.name : i \in DOMAIN rows} = {TeamName(t) : t \in met} ]_vars
    /\ [](\A i, j \in DOMAIN rFetchLog :
            (i # j /\ rFetchLog[i].url = "summary" /\ rFetchLog[j].url = "summary") =>
                rFetchLog[i].id # rFetchLog[j].id)

\* the remote builder is done: the summary of the first event, Alpha against
\* Beta, failed; the second event was read and its teams have their rows, while
\* Beta, a qualifying team met in the failed event only, has none
C23_Witness ==
    /\ page = "rankings" /\ rpc = "done" /\ rsb = "events"
    /\ Len(rEvents) = 2 /\ SummaryFailed(rEvents, 1) /\ ~SummaryFailed(rEvents, 2)
    /\ rEvents[2].teams = <<1, 3>> /\ Qualifies(1) /\ Qualifies(2) /\ Qualifies(3)
    /\ Len(SummaryRequests(rFetchLog)) = 2
    /\ TablesShown /\ rankingsContainer.tables[1].script = "remote"
    /\ {rankingsContainer.tables[1].rows[i].team.name :
            i \in DOMAIN rankingsContainer.tables[1].rows} = {"Alpha", "Gamma"}

(***************************************************************************)
(* Game detail page: no event parameter.                                   *)
(***************************************************************************)
\* the detail page was opened without an event parameter, or with an empty one
NoEventParam == page = "game" /\ (~gParam.present \/ gParam.value = "")

\* C24: on a detail page without an event parameter, or with an empty one, loadGame
\* sets the title to 'No event specified' and is over; no fetch is issued, the
\* summary container stays as the document had it, and the page never shows the
\* loading title, a rendered summary or a failure title.
C24_NoEventSpecified ==
    NoEventParam =>
        /\ gpc \in {"ready", "done"}
        /\ gameTitle = IF gpc = "done" THEN "No event specified" ELSE ""
        /\ gFetches = 0 /\ gres = NoSummaryResponse
        /\ summaryContainer = EmptyContainer
        /\ ~gEscaped

\* loadGame is over on a page whose event parameter is present and empty
C24_Witness ==
    /\ NoEventParam /\ gParam.present /\ gpc = "done"
    /\ gameTitle = "No event specified" /\ gFetches = 0

=============================================================================
